---- MODULE Spec2Model ----
(***************************************************************************)
(* PyInMemStore (src/pyinmemstore.py): an in-memory key-value store with   *)
(* three dictionaries guarded by one lock and a background thread that     *)
(* removes expired keys once per second.                                   *)
(*                                                                         *)
(* Time is measured in clock ticks, Res ticks to the second, so that       *)
(* time.time() takes fractional values and int() has something to          *)
(* truncate.  A dictionary is a function whose DOMAIN is the set of keys   *)
(* it holds.  Every public method runs entirely inside `with self.lock`,   *)
(* so it is one atomic step; the sweeper reads the clock before it takes   *)
(* the lock, so it is two.                                                 *)
(***************************************************************************)
EXTENDS Integers, FiniteSets, Sequences, TLC

\* ---- bounds of the model ------------------------------------------------
Res == 2                    \* clock ticks per second
MaxTime == 3                \* the clock stops advancing at this tick
MaxSecs == 2                \* largest `seconds` passed to expire
MaxNeg == 1                 \* most negative `seconds` passed to expire
MaxCalls == 3               \* number of public calls the callers make

Keys == {"a", "b"}
Values == {"1", "2"}
Secs == (0 - MaxNeg)..MaxSecs

\* ---- program constants --------------------------------------------------
INF == 1000000              \* float("inf"), the default of self.expiry
NEG_EXPIRY == -1            \* expiry written for non-positive seconds
SLEEP_SECONDS == 1          \* time.sleep(1) of the sweeper
None == "None"              \* Python's None, as returned by dict.get

VARIABLES
    key_value_pairs,        \* self.key_value_pairs
    expiry,                 \* self.expiry (ticks, INF, or NEG_EXPIRY seconds)
    creation_times,         \* self.creation_times (ticks)
    now,                    \* time.time(), in ticks
    sweeper_pc,             \* where the cleanup thread is in its loop
    sweeper_now,            \* the local `now` of _cleanup_expired_keys
    wake_at,                \* earliest tick at which time.sleep(1) returns
    last,                   \* the last public call and what it returned
    lastset,                \* history: set(k, v) calls not yet followed by another call on k
    armed,                  \* history: the expire(k, n > 0) call that set k's deadline
    calls,                  \* number of public calls made so far
    removed,                \* history: how each key last left the store
    locked,                 \* self.lock is held
    inside                  \* the threads inside a `with self.lock` block

vars == <<key_value_pairs, expiry, creation_times, now, sweeper_pc,
          sweeper_now, wake_at, last, lastset, armed, calls, removed,
          locked, inside>>

\* ---- dictionaries -------------------------------------------------------
Put(d, k, v) == [x \in DOMAIN d \cup {k} |-> IF x = k THEN v ELSE d[x]]

Del(d, k) == [x \in DOMAIN d \ {k} |-> d[x]]

DelAll(d, ks) == [x \in DOMAIN d \ ks |-> d[x]]

Empty == [x \in {} |-> 0]

\* ---- arithmetic of the code ---------------------------------------------
\* float subtraction: inf - t = inf
FSub(x, t) == IF x = INF THEN INF ELSE x - t

\* int() as it would be if it rounded to the nearest second
IntSeconds_Rounds(r) == IF r >= 0 THEN (2 * r + Res) \div (2 * Res) ELSE 0 - ((0 - r) \div Res)

\* int() of a float number of seconds given in ticks: truncation toward zero
IntSeconds(r) == IF r >= 0 THEN r \div Res ELSE 0 - ((0 - r) \div Res)

Max(x, y) == IF x >= y THEN x ELSE y

\* ---- what a call returns in the current state ---------------------------
\* self.key_value_pairs.get(key)
GetRet(k) == IF k \in DOMAIN key_value_pairs THEN key_value_pairs[k] ELSE None

\* self.expiry[key]: a defaultdict read, inf for a key it does not hold
ExpiryRead(k) == IF k \in DOMAIN expiry THEN expiry[k] ELSE INF

\* ttl raises OverflowError at int(inf)
TtlFaults(k) == k \in DOMAIN key_value_pairs /\ ExpiryRead(k) = INF

TtlRet(k) ==
    IF k \in DOMAIN key_value_pairs
    THEN Max(0, IntSeconds(FSub(ExpiryRead(k), now)))
    ELSE -2

\* list(self.key_value_pairs.keys())
GetAllKeysRet == DOMAIN key_value_pairs

Call(op, k) == [op |-> op, key |-> k, val |-> "-", num |-> 0, keys |-> {}, fault |-> "none"]

Init ==
    /\ key_value_pairs = Empty
    /\ expiry = Empty
    /\ creation_times = Empty
    /\ now = 0
    /\ sweeper_pc = "read"
    /\ sweeper_now = 0
    /\ wake_at = 0
    /\ last = Call("init", "-")
    /\ lastset = Empty
    /\ armed = Empty
    /\ calls = 0
    /\ removed = [k \in Keys |-> "never"]
    /\ locked = FALSE
    /\ inside = {}

\* ---- public methods -----------------------------------------------------
\* Set as it would be if it cleared the deadline of the key it overwrites
Set_ClearsExpiry(k, v) ==
    /\ calls < MaxCalls
    /\ calls' = calls + 1
    /\ key_value_pairs' = Put(key_value_pairs, k, v)
    /\ creation_times' = Put(creation_times, k, now)
    /\ expiry' = Del(expiry, k)
    /\ last' = Call("set", k)
    /\ lastset' = Put(lastset, k, [val |-> v, deadline |-> ExpiryRead(k),
                                   fresh |-> k \notin DOMAIN key_value_pairs])
    /\ UNCHANGED <<now, sweeper_pc, sweeper_now, wake_at, armed>>

\* Set as it would be if it rebuilt the dictionary instead of updating it
Set_LosesOthers(k, v) ==
    /\ calls < MaxCalls
    /\ calls' = calls + 1
    /\ key_value_pairs' = Put(Empty, k, v)
    /\ creation_times' = Put(creation_times, k, now)
    /\ last' = Call("set", k)
    /\ lastset' = Put(lastset, k, [val |-> v, deadline |-> ExpiryRead(k),
                                   fresh |-> k \notin DOMAIN key_value_pairs])
    /\ UNCHANGED <<expiry, now, sweeper_pc, sweeper_now, wake_at, armed>>

Set(k, v) ==
    /\ calls < MaxCalls
    /\ calls' = calls + 1
    /\ key_value_pairs' = Put(key_value_pairs, k, v)
    /\ creation_times' = Put(creation_times, k, now)
    /\ last' = Call("set", k)
    /\ lastset' = Put(lastset, k, [val |-> v, deadline |-> ExpiryRead(k),
                                   fresh |-> k \notin DOMAIN key_value_pairs])
    /\ UNCHANGED <<expiry, now, sweeper_pc, sweeper_now, wake_at, armed>>

Get(k) ==
    /\ calls < MaxCalls
    /\ calls' = calls + 1
    /\ last' = [Call("get", k) EXCEPT !.val = GetRet(k)]
    /\ lastset' = Del(lastset, k)
    /\ UNCHANGED <<key_value_pairs, expiry, creation_times, now, sweeper_pc,
                   sweeper_now, wake_at, armed>>

\* Delete as it would be if it removed the expiry first: the KeyError then
\* comes before the value is gone
Delete_ExpiryFirst(k) ==
    /\ calls < MaxCalls
    /\ calls' = calls + 1
    /\ IF k \in DOMAIN key_value_pairs
       THEN IF k \in DOMAIN expiry
            THEN /\ key_value_pairs' = Del(key_value_pairs, k)
                 /\ expiry' = Del(expiry, k)
                 /\ creation_times' = Del(creation_times, k)
                 /\ last' = Call("delete", k)
            ELSE /\ UNCHANGED <<key_value_pairs, expiry, creation_times>>
                 /\ last' = [Call("delete", k) EXCEPT !.fault = "KeyError"]
       ELSE /\ UNCHANGED <<key_value_pairs, expiry, creation_times>>
            /\ last' = Call("delete", k)
    /\ lastset' = Del(lastset, k)
    /\ armed' = Del(armed, k)
    /\ UNCHANGED <<now, sweeper_pc, sweeper_now, wake_at>>

\* Delete as it would be without the membership test: `del` of an absent key
\* raises KeyError
Delete_NoTest(k) ==
    /\ calls < MaxCalls
    /\ calls' = calls + 1
    /\ key_value_pairs' = Del(key_value_pairs, k)
    /\ IF k \in DOMAIN key_value_pairs /\ k \in DOMAIN expiry
       THEN /\ expiry' = Del(expiry, k)
            /\ creation_times' = Del(creation_times, k)
            /\ last' = Call("delete", k)
       ELSE /\ UNCHANGED <<expiry, creation_times>>
            /\ last' = [Call("delete", k) EXCEPT !.fault = "KeyError"]
    /\ lastset' = Del(lastset, k)
    /\ armed' = Del(armed, k)
    /\ UNCHANGED <<now, sweeper_pc, sweeper_now, wake_at>>

\* Delete as it would be if it forgot `del self.expiry[key]`
Delete_KeepsExpiry(k) ==
    /\ calls < MaxCalls
    /\ calls' = calls + 1
    /\ IF k \in DOMAIN key_value_pairs
       THEN /\ key_value_pairs' = Del(key_value_pairs, k)
            /\ creation_times' = Del(creation_times, k)
       ELSE UNCHANGED <<key_value_pairs, creation_times>>
    /\ UNCHANGED expiry
    /\ last' = Call("delete", k)
    /\ lastset' = Del(lastset, k)
    /\ armed' = Del(armed, k)
    /\ UNCHANGED <<now, sweeper_pc, sweeper_now, wake_at>>

Delete(k) ==
    /\ calls < MaxCalls
    /\ calls' = calls + 1
    /\ IF k \in DOMAIN key_value_pairs
       THEN IF k \in DOMAIN expiry
            THEN /\ key_value_pairs' = Del(key_value_pairs, k)
                 /\ expiry' = Del(expiry, k)
                 /\ creation_times' = Del(creation_times, k)
                 /\ last' = Call("delete", k)
            ELSE \* `del self.expiry[key]` raises KeyError after the value is gone
                 /\ key_value_pairs' = Del(key_value_pairs, k)
                 /\ UNCHANGED <<expiry, creation_times>>
                 /\ last' = [Call("delete", k) EXCEPT !.fault = "KeyError"]
       ELSE /\ UNCHANGED <<key_value_pairs, expiry, creation_times>>
            /\ last' = Call("delete", k)
    /\ lastset' = Del(lastset, k)
    /\ armed' = Del(armed, k)
    /\ UNCHANGED <<now, sweeper_pc, sweeper_now, wake_at>>

\* Expire as it would be if non-positive seconds removed the key at once
Expire_DeletesAtOnce(k, seconds) ==
    /\ calls < MaxCalls
    /\ calls' = calls + 1
    /\ IF k \in DOMAIN key_value_pairs
       THEN IF seconds > 0
            THEN /\ expiry' = Put(expiry, k, now + seconds * Res)
                 /\ armed' = Put(armed, k, [at |-> now, secs |-> seconds])
                 /\ UNCHANGED <<key_value_pairs, creation_times>>
            ELSE /\ key_value_pairs' = Del(key_value_pairs, k)
                 /\ expiry' = Del(expiry, k)
                 /\ creation_times' = Del(creation_times, k)
                 /\ armed' = Del(armed, k)
       ELSE UNCHANGED <<key_value_pairs, creation_times, expiry, armed>>
    /\ last' = Call("expire", k)
    /\ lastset' = Del(lastset, k)
    /\ UNCHANGED <<now, sweeper_pc, sweeper_now, wake_at>>

\* Expire as it would be without the membership test
Expire_NoTest(k, seconds) ==
    /\ calls < MaxCalls
    /\ calls' = calls + 1
    /\ IF seconds > 0
       THEN /\ expiry' = Put(expiry, k, now + seconds * Res)
            /\ armed' = Put(armed, k, [at |-> now, secs |-> seconds])
       ELSE /\ expiry' = Put(expiry, k, NEG_EXPIRY * Res)
            /\ armed' = Del(armed, k)
    /\ last' = Call("expire", k)
    /\ lastset' = Del(lastset, k)
    /\ UNCHANGED <<key_value_pairs, creation_times, now, sweeper_pc,
                   sweeper_now, wake_at>>

Expire(k, seconds) ==
    /\ calls < MaxCalls
    /\ calls' = calls + 1
    /\ IF k \in DOMAIN key_value_pairs
       THEN IF seconds > 0
            THEN /\ expiry' = Put(expiry, k, now + seconds * Res)
                 /\ armed' = Put(armed, k, [at |-> now, secs |-> seconds])
            ELSE /\ expiry' = Put(expiry, k, NEG_EXPIRY * Res)
                 /\ armed' = Del(armed, k)
       ELSE UNCHANGED <<expiry, armed>>
    /\ last' = Call("expire", k)
    /\ lastset' = Del(lastset, k)
    /\ UNCHANGED <<key_value_pairs, creation_times, now, sweeper_pc,
                   sweeper_now, wake_at>>

\* Ttl as it would be if it read self.expiry[key] before the membership test
Ttl_ReadsFirst(k) ==
    /\ calls < MaxCalls
    /\ calls' = calls + 1
    /\ expiry' = Put(expiry, k, ExpiryRead(k))
    /\ last' = IF k \in DOMAIN key_value_pairs
               THEN IF TtlFaults(k)
                    THEN [Call("ttl", k) EXCEPT !.fault = "OverflowError"]
                    ELSE [Call("ttl", k) EXCEPT !.num = TtlRet(k)]
               ELSE [Call("ttl", k) EXCEPT !.num = -2]
    /\ lastset' = Del(lastset, k)
    /\ UNCHANGED <<key_value_pairs, creation_times, now, sweeper_pc,
                   sweeper_now, wake_at, armed>>

Ttl(k) ==
    /\ calls < MaxCalls
    /\ calls' = calls + 1
    /\ IF k \in DOMAIN key_value_pairs
       THEN \* self.expiry[key] stores the default for a key it does not hold
            /\ expiry' = Put(expiry, k, ExpiryRead(k))
            /\ last' = IF TtlFaults(k)
                       THEN [Call("ttl", k) EXCEPT !.fault = "OverflowError"]
                       ELSE [Call("ttl", k) EXCEPT !.num = TtlRet(k)]
       ELSE /\ UNCHANGED expiry
            /\ last' = [Call("ttl", k) EXCEPT !.num = -2]
    /\ lastset' = Del(lastset, k)
    /\ UNCHANGED <<key_value_pairs, creation_times, now, sweeper_pc,
                   sweeper_now, wake_at, armed>>

GetAllKeys ==
    /\ calls < MaxCalls
    /\ calls' = calls + 1
    /\ last' = [Call("get_all_keys", "-") EXCEPT !.keys = GetAllKeysRet]
    /\ UNCHANGED <<key_value_pairs, expiry, creation_times, now, sweeper_pc,
                   sweeper_now, wake_at, lastset, armed>>

\* ---- the cleanup thread -------------------------------------------------
\* now = time.time(), read before the lock is taken
SweeperRead ==
    /\ UNCHANGED calls
    /\ sweeper_pc = "read"
    /\ sweeper_now' = now
    /\ sweeper_pc' = "sweep"
    /\ UNCHANGED <<key_value_pairs, expiry, creation_times, now, wake_at,
                   last, lastset, armed>>

\* the scan as it would be with <= for <
expired_keys_AtDeadline == {k \in DOMAIN expiry : expiry[k] <= sweeper_now}

\* the scan as it would be if it let a key live a second past its deadline
expired_keys_Late == {k \in DOMAIN expiry : expiry[k] + Res < sweeper_now}

expired_keys == {k \in DOMAIN expiry : expiry[k] < sweeper_now}

\* the locked block as it would be if it forgot `del self.expiry[key]`
SweeperSweep_KeepsExpiry ==
    /\ UNCHANGED calls
    /\ sweeper_pc = "sweep"
    /\ key_value_pairs' = DelAll(key_value_pairs, expired_keys)
    /\ creation_times' = DelAll(creation_times, expired_keys)
    /\ armed' = DelAll(armed, expired_keys)
    /\ sweeper_pc' = "sleep"
    /\ wake_at' = now + SLEEP_SECONDS * Res
    /\ sweeper_now' = 0
    /\ UNCHANGED <<expiry, now, last, lastset>>

\* the locked block, then the call of time.sleep(1); a delay between the two
\* is a longer sleep, which SweeperWake allows.  A `del` of a key a
\* dictionary does not hold raises KeyError and ends the thread; the keys
\* removed before it depend on the order of the scan.
SweeperSweep ==
    /\ UNCHANGED calls
    /\ sweeper_pc = "sweep"
    /\ IF expired_keys \subseteq (DOMAIN key_value_pairs \cap DOMAIN creation_times)
       THEN /\ key_value_pairs' = DelAll(key_value_pairs, expired_keys)
            /\ expiry' = DelAll(expiry, expired_keys)
            /\ creation_times' = DelAll(creation_times, expired_keys)
            /\ armed' = DelAll(armed, expired_keys)
            /\ sweeper_pc' = "sleep"
            /\ wake_at' = now + SLEEP_SECONDS * Res
       ELSE \E f \in expired_keys \ (DOMAIN key_value_pairs \cap DOMAIN creation_times) :
            \E done \in SUBSET (expired_keys \cap DOMAIN key_value_pairs \cap DOMAIN creation_times) :
                /\ key_value_pairs' = DelAll(key_value_pairs, done \cup {f})
                /\ expiry' = DelAll(expiry, done \cup (IF f \in DOMAIN key_value_pairs THEN {f} ELSE {}))
                /\ creation_times' = DelAll(creation_times, done)
                /\ armed' = DelAll(armed, done)
                /\ sweeper_pc' = "dead"
                /\ UNCHANGED wake_at
    /\ sweeper_now' = 0
    /\ UNCHANGED <<now, last, lastset>>

\* time.sleep(1) returns once at least a second has passed; the model's
\* clock stops at MaxTime, where a sleep still returns
SweeperWake ==
    /\ UNCHANGED calls
    /\ sweeper_pc = "sleep"
    /\ now >= wake_at \/ now = MaxTime
    /\ sweeper_pc' = "read"
    /\ wake_at' = 0
    /\ UNCHANGED <<key_value_pairs, expiry, creation_times, now, sweeper_now,
                   last, lastset, armed>>

\* ---- the clock ----------------------------------------------------------
Tick ==
    /\ UNCHANGED calls
    /\ now < MaxTime
    /\ now' = now + 1
    /\ UNCHANGED <<key_value_pairs, expiry, creation_times, sweeper_pc,
                   sweeper_now, wake_at, last, lastset, armed>>

\* ---- the lock -----------------------------------------------------------
Threads == {"c1", "c2", "sweeper"}
Callers == Threads \ {"sweeper"}

\* __enter__ of `with self.lock`: blocks while the lock is held
Acquire(t) ==
    /\ ~locked
    /\ locked' = TRUE
    /\ inside' = inside \cup {t}

\* __exit__ as it would be if the lock were released after the block by a
\* plain call of release(), which a raised fault skips
Exit_NoFinally(t, fault) ==
    /\ locked' = (fault # "none")
    /\ inside' = inside \ {t}

\* __exit__ of `with self.lock`: runs however the block ends, the fault of
\* a raising block included, and releases the lock
Exit(t, fault) ==
    /\ locked' = FALSE
    /\ inside' = inside \ {t}

\* history: a key that leaves key_value_pairs was removed by the sweeper's
\* locked block or by delete, the only code with `del self.key_value_pairs`
History ==
    removed' = [k \in Keys |->
                   IF k \in DOMAIN key_value_pairs /\ k \notin DOMAIN key_value_pairs'
                   THEN IF sweeper_pc = "sweep" /\ sweeper_pc' # "sweep"
                        THEN "sweep"
                        ELSE "delete"
                   ELSE removed[k]]

\* a whole `with self.lock` block taken as one step, or a step that does
\* not touch the lock: the lock is as free after it as before
Whole ==
    /\ History
    /\ UNCHANGED <<locked, inside>>

Next ==
    \/ \E k \in Keys, v \in Values : Set(k, v) /\ Whole
    \/ \E k \in Keys : Get(k) /\ Whole
    \/ \E k \in Keys : Delete(k) /\ Whole
    \/ \E k \in Keys, seconds \in Secs : Expire(k, seconds) /\ Whole
    \/ \E k \in Keys : Ttl(k) /\ Whole
    \/ GetAllKeys /\ Whole
    \/ SweeperRead /\ Whole
    \/ SweeperSweep /\ Whole
    \/ SweeperWake /\ Whole
    \/ Tick /\ Whole

Spec == Init /\ [][Next]_vars

\* the callers only write: get and get_all_keys change nothing, and ttl adds
\* no finite deadline, so no read stands between a passed deadline and the
\* sweeper
NextWrites ==
    \/ \E k \in Keys, v \in Values : Set(k, v) /\ Whole
    \/ \E k \in Keys : Delete(k) /\ Whole
    \/ \E k \in Keys, seconds \in Secs : Expire(k, seconds) /\ Whole
    \/ SweeperRead /\ Whole
    \/ SweeperSweep /\ Whole
    \/ SweeperWake /\ Whole
    \/ Tick /\ Whole

\* the sweeper is scheduled again and again, and time passes
FairSpec ==
    /\ Init
    /\ [][NextWrites]_vars
    /\ WF_vars(SweeperRead /\ Whole)
    /\ WF_vars(SweeperSweep /\ Whole)
    /\ WF_vars(SweeperWake /\ Whole)
    /\ WF_vars(Tick /\ Whole)

\* ---- the calls and the tick with the lock taken and released in steps ---
\* a caller thread reaches `with self.lock` of a public method
CallerEnter(t) ==
    /\ t \notin inside
    /\ calls < MaxCalls
    /\ Acquire(t)
    /\ UNCHANGED <<key_value_pairs, expiry, creation_times, now, sweeper_pc,
                   sweeper_now, wake_at, last, lastset, armed, calls, removed>>

\* the exit from the block of a public method, after its body
CallerExit(t) ==
    /\ History
    /\ Exit(t, last'.fault)

\* the cleanup thread reaches `with self.lock`, after it has read the clock
SweeperEnter ==
    /\ sweeper_pc = "sweep"
    /\ "sweeper" \notin inside
    /\ Acquire("sweeper")
    /\ UNCHANGED <<key_value_pairs, expiry, creation_times, now, sweeper_pc,
                   sweeper_now, wake_at, last, lastset, armed, calls, removed>>

\* the block of the tick, and the exit from it
SweeperBody ==
    /\ "sweeper" \in inside
    /\ SweeperSweep
    /\ History
    /\ Exit("sweeper", IF sweeper_pc' = "dead" THEN "KeyError" ELSE "none")

\* the body of a method is chosen when it runs: nothing depends on which
\* method a thread that holds the lock is in
LockNext ==
    \/ \E t \in Callers : CallerEnter(t)
    \/ \E t \in inside \cap Callers, k \in Keys, v \in Values :
           Set(k, v) /\ CallerExit(t)
    \/ \E t \in inside \cap Callers, k \in Keys : Get(k) /\ CallerExit(t)
    \/ \E t \in inside \cap Callers, k \in Keys : Delete(k) /\ CallerExit(t)
    \/ \E t \in inside \cap Callers, k \in Keys, seconds \in Secs :
           Expire(k, seconds) /\ CallerExit(t)
    \/ \E t \in inside \cap Callers, k \in Keys : Ttl(k) /\ CallerExit(t)
    \/ \E t \in inside \cap Callers : GetAllKeys /\ CallerExit(t)
    \/ SweeperRead /\ Whole
    \/ SweeperEnter
    \/ SweeperBody
    \/ SweeperWake /\ Whole
    \/ Tick /\ Whole

LockSpec == Init /\ [][LockNext]_vars

\* ---- the claims ---------------------------------------------------------
\* a key the store holds whose deadline is at or before the current time
LogicallyExpired(k) ==
    /\ k \in DOMAIN key_value_pairs
    /\ k \in DOMAIN expiry
    /\ expiry[k] <= now

\* C1: get(k) never returns the value of a logically expired key: whenever k
\* is present and its deadline is at or before the current time, get(k)
\* signals absence, swept or not.
C1_GetHidesExpired ==
    \A k \in Keys : LogicallyExpired(k) => GetRet(k) = None

\* C2: get_all_keys returns exactly the live keys: no key whose deadline is
\* at or before the current time is in the list, and every other key the
\* store holds is.
C2_ListOnlyLive ==
    GetAllKeysRet = {k \in DOMAIN key_value_pairs : ~LogicallyExpired(k)}

\* C3 as stated: after set(k, v), with no other call on k since, get(k)
\* returns v, whatever deadline k carried and whatever the sweeper did.
C3_GetAfterSetAlways ==
    \A k \in DOMAIN lastset : GetRet(k) = lastset[k].val

\* C3 as amended: after set(k, v), with no other call on k since, get(k)
\* returns v or absent, never another value, and it returns absent only when
\* k carried a deadline before the set and that deadline has passed (set
\* keeps the deadline, so a sweeper tick in between may have removed k).
C3_GetAfterSet ==
    \A k \in DOMAIN lastset :
        /\ k \in DOMAIN key_value_pairs => GetRet(k) = lastset[k].val
        /\ k \notin DOMAIN key_value_pairs =>
               /\ lastset[k].deadline # INF
               /\ lastset[k].deadline < now

\* a set(k, v) on a key with a deadline still to come, then a sweeper tick
\* later than the set, and k is still there
C3_Witness ==
    \E k \in DOMAIN lastset :
        /\ lastset[k].deadline # INF
        /\ lastset[k].deadline >= now
        /\ sweeper_pc = "sleep"
        /\ creation_times[k] < wake_at - SLEEP_SECONDS * Res
        /\ GetRet(k) = lastset[k].val

\* C4: delete(k) on a key the store holds raises no fault and leaves k in
\* none of key_value_pairs, expiry, creation_times.
C4_DeleteRemovesAll ==
    [][\A k \in Keys :
          (last'.op = "delete" /\ k \in DOMAIN key_value_pairs /\ Delete(k)) =>
              /\ last'.fault = "none"
              /\ k \notin DOMAIN key_value_pairs'
              /\ k \notin DOMAIN expiry'
              /\ k \notin DOMAIN creation_times']_vars

\* C5: ttl(k) returns -1, without a fault, for a key that exists and has no
\* expiry set.
C5_TtlNoExpiry ==
    [][\A k \in Keys :
          (last'.op = "ttl" /\ k \in DOMAIN key_value_pairs /\ ExpiryRead(k) = INF /\ Ttl(k)) =>
              /\ last'.fault = "none"
              /\ last'.num = -1]_vars

\* the whole seconds in x > 0 ticks: the r with r seconds <= x < r + 1 seconds
WholeSeconds(x) == CHOOSE r \in 0..x : r * Res <= x /\ x < (r + 1) * Res

\* what C6 says ttl returns d ticks after expire(k, n)
TtlExpected(n, d) ==
    IF d = 0 THEN n
    ELSE IF d < n * Res THEN WholeSeconds(n * Res - d)
    ELSE 0

\* C6: for an existing key with a finite deadline ttl(k) is never negative,
\* and d ticks after expire(k, n > 0), with no expire or delete of k since,
\* it returns n when d = 0, the whole seconds of n - d while 0 < d < n, and 0
\* once d >= n and k is unswept.
C6_TtlCountsDown ==
    /\ \A k \in DOMAIN armed :
           /\ k \in DOMAIN key_value_pairs
           /\ ~TtlFaults(k)
           /\ TtlRet(k) = TtlExpected(armed[k].secs, now - armed[k].at)
    /\ \A k \in DOMAIN key_value_pairs :
           (k \in DOMAIN expiry /\ expiry[k] # INF) =>
               /\ TtlRet(k) >= 0
               /\ expiry[k] <= now => TtlRet(k) = 0

\* ttl has returned 1 half a second after expire(k, 2)
C6_Witness ==
    \E k \in DOMAIN armed :
        /\ last.op = "ttl"
        /\ last.key = k
        /\ last.num = 1
        /\ armed[k].secs = 2
        /\ now - armed[k].at = 1
        /\ TtlRet(k) = 1

\* k holds the deadline that expire writes for non-positive seconds
HasPastDeadline(k) ==
    /\ k \in DOMAIN key_value_pairs
    /\ ExpiryRead(k) = NEG_EXPIRY * Res

\* C7: after expire(k, n) with n <= 0 on an existing key holding v, and
\* for as long as k keeps that deadline (no sweeper tick or delete has
\* removed k) and is not set again, get(k) returns v and ttl(k) returns 0
\* or -1.
C7_NonPositiveExpire ==
    /\ [][\A k \in Keys, n \in Secs :
             (last'.op = "expire" /\ n <= 0 /\ k \in DOMAIN key_value_pairs /\ Expire(k, n)) =>
                 /\ HasPastDeadline(k)'
                 /\ GetRet(k)' = key_value_pairs[k]
                 /\ ~TtlFaults(k)'
                 /\ TtlRet(k)' \in {0, -1}]_vars
    /\ [][\A k \in Keys :
             (/\ HasPastDeadline(k)
              /\ HasPastDeadline(k)'
              /\ ~(last'.op = "set" /\ last'.key = k /\ calls' # calls)) =>
                 /\ GetRet(k)' = GetRet(k)
                 /\ ~TtlFaults(k)'
                 /\ TtlRet(k)' \in {0, -1}]_vars

\* expire(k, n <= 0) has just returned on an existing key
C7_Witness ==
    /\ last.op = "expire"
    /\ last.key \in Keys
    /\ HasPastDeadline(last.key)
    /\ GetRet(last.key) \in Values
    /\ TtlRet(last.key) = 0

\* k has a deadline and it has passed
DeadlinePassed(k) == k \in DOMAIN expiry /\ expiry[k] < now

C9_SetFrame ==
    [][\A k \in Keys, v \in Values :
          (last'.op = "set" /\ k \in DOMAIN key_value_pairs /\ Set(k, v)) =>
              /\ expiry' = expiry
              /\ key_value_pairs' = Put(key_value_pairs, k, v)
              /\ creation_times' = Put(creation_times, k, now)
              /\ \A j \in Keys \ {k} :
                     /\ GetRet(j)' = GetRet(j)
                     /\ ExpiryRead(j)' = ExpiryRead(j)
                     /\ (j \in DOMAIN creation_times') = (j \in DOMAIN creation_times)
                     /\ j \in DOMAIN creation_times =>
                            creation_times'[j] = creation_times[j]]_vars

\* set has just overwritten a key that carries a deadline from expire
C9_Witness ==
    /\ last.op = "set"
    /\ last.key \in DOMAIN lastset
    /\ ~lastset[last.key].fresh
    /\ last.key \in DOMAIN armed
    /\ expiry[last.key] = lastset[last.key].deadline
    /\ creation_times[last.key] > armed[last.key].at

\* the keys written by a set that found them absent, with no call on them since
FreshlySet == {k \in DOMAIN lastset : lastset[k].fresh}

\* C10 as stated: set calls on distinct absent keys, interleaved with each
\* other and the sweeper, raise no fault, get returns each value written,
\* and each key is in all three dictionaries.
C10_SetsInAllThreeMaps ==
    /\ last.op = "set" => last.fault = "none"
    /\ \A k \in FreshlySet :
           /\ GetRet(k) = lastset[k].val
           /\ k \in DOMAIN key_value_pairs
           /\ k \in DOMAIN creation_times
           /\ k \in DOMAIN expiry

\* C10 as amended: set calls on distinct absent keys, interleaved with each
\* other and the sweeper, raise no fault, get returns each value written,
\* and each key is in key_value_pairs and creation_times; expiry holds no
\* entry for it, which reads as no deadline.
C10_ConcurrentSets ==
    /\ last.op = "set" => last.fault = "none"
    /\ \A k \in FreshlySet :
           /\ GetRet(k) = lastset[k].val
           /\ k \in DOMAIN key_value_pairs
           /\ k \in DOMAIN creation_times
           /\ k \notin DOMAIN expiry
           /\ ExpiryRead(k) = INF

\* two sets on distinct absent keys with a sweeper tick between them
C10_Witness ==
    /\ Cardinality(FreshlySet) = 2
    /\ sweeper_pc = "sleep"
    /\ \E j, k \in FreshlySet :
           /\ creation_times[j] < wake_at - SLEEP_SECONDS * Res
           /\ wake_at - SLEEP_SECONDS * Res < creation_times[k]

\* the three dictionaries stay as they are
MapsUnchanged == UNCHANGED <<key_value_pairs, expiry, creation_times>>

\* C12: get(k) is absent for a key never written, and after delete(k),
\* whatever state k was in, until the next set(k, _): get is absent for
\* every key at the start, delete(k) leaves it absent, and only set(k, _)
\* ends the absence.
C12_GetAbsent ==
    /\ \A k \in Keys : GetRet(k) = None
    /\ [][\A k \in Keys :
             (last'.op = "delete" /\ Delete(k)) => GetRet(k)' = None]_vars
    /\ [][\A k \in Keys :
             (GetRet(k) = None /\ ~(last'.op = "set" /\ last'.key = k /\ calls' # calls))
                 => GetRet(k)' = None]_vars

\* delete has just raised KeyError on a key, and get finds the key absent
C12_Witness ==
    /\ last.op = "delete"
    /\ last.fault = "KeyError"
    /\ last.key \in DOMAIN creation_times
    /\ GetRet(last.key) = None

\* C13: delete(k) on a key the store does not hold raises no fault and
\* leaves the three dictionaries as they were, however often it is repeated.
C13_DeleteAbsentNoOp ==
    [][\A k \in Keys :
          (last'.op = "delete" /\ k \notin DOMAIN key_value_pairs /\ Delete(k)) =>
              /\ last'.fault = "none"
              /\ MapsUnchanged]_vars

\* a second delete of the same key has returned: the first one left the
\* creation time behind, which only a delete that found the key present does
C13_Witness ==
    /\ last.op = "delete"
    /\ last.fault = "none"
    /\ last.key \in DOMAIN creation_times
    /\ last.key \notin DOMAIN key_value_pairs

\* C14: ttl(k) returns -2 for a key the store does not hold and creates no
\* entry for it in any dictionary.
C14_TtlAbsent ==
    [][\A k \in Keys :
          (last'.op = "ttl" /\ k \notin DOMAIN key_value_pairs /\ Ttl(k)) =>
              /\ last'.fault = "none"
              /\ last'.num = -2
              /\ MapsUnchanged
              /\ k \notin DOMAIN expiry']_vars

\* ttl has returned -2 for a key that a faulting delete had removed
C14_Witness ==
    /\ last.op = "ttl"
    /\ last.fault = "none"
    /\ last.num = -2
    /\ last.key \in DOMAIN creation_times
    /\ last.key \notin DOMAIN key_value_pairs
    /\ last.key \notin DOMAIN expiry

\* C15: expire(k, seconds) on a key the store does not hold changes none of
\* the dictionaries, whatever the sign of seconds, and a set(k, v) on a key
\* the store does not hold yields a key with no deadline.
C15_ExpireAbsentNoOp ==
    /\ [][\A k \in Keys, n \in Secs :
             (last'.op = "expire" /\ k \notin DOMAIN key_value_pairs /\ Expire(k, n)) =>
                 /\ last'.fault = "none"
                 /\ MapsUnchanged
                 /\ k \notin DOMAIN expiry']_vars
    /\ [][\A k \in Keys, v \in Values :
             (last'.op = "set" /\ k \notin DOMAIN key_value_pairs /\ Set(k, v)) =>
                 ExpiryRead(k)' = INF]_vars

\* expire was the first call ever, on an empty store, and left it empty
C15_Witness ==
    /\ calls = 1
    /\ last.op = "expire"
    /\ last.key \in Keys
    /\ last.fault = "none"
    /\ DOMAIN key_value_pairs = {}
    /\ DOMAIN expiry = {}
    /\ DOMAIN creation_times = {}

\* the keys a sweeper tick would remove if it compared with the clock as it
\* stands while the tick holds the lock
ExpiredAtLockTime == {k \in DOMAIN expiry : expiry[k] < now}

\* what a tick that removes the keys in ks leaves behind
SweepLeaves(ks) ==
    /\ key_value_pairs' = DelAll(key_value_pairs, ks)
    /\ expiry' = DelAll(expiry, ks)
    /\ creation_times' = DelAll(creation_times, ks)

\* C16 as stated: a sweeper tick removes exactly the keys whose deadline is
\* before the current time at which the tick holds the lock, and changes
\* nothing about any other key.
C16_SweepAtLockTime ==
    [][(sweeper_pc = "sweep" /\ SweeperSweep) => SweepLeaves(ExpiredAtLockTime)]_vars

\* C16 as amended: a sweeper tick removes, in one step under the lock,
\* exactly the keys whose deadline is before the time the tick read just
\* before it took the lock, and changes nothing about any other key.
C16_SweepAtReadTime ==
    [][(sweeper_pc = "sweep" /\ SweeperSweep) =>
          SweepLeaves({k \in DOMAIN expiry : expiry[k] < sweeper_now})]_vars

\* a tick has just ended and left a key whose deadline passed between the
\* tick's reading of the clock and its scan
C16_Witness ==
    /\ sweeper_pc = "sleep"
    /\ wake_at = now + SLEEP_SECONDS * Res
    /\ \E k \in DOMAIN armed :
           /\ k \in DOMAIN key_value_pairs
           /\ expiry[k] < now

\* C17: key_value_pairs and creation_times hold the same keys, and expiry
\* holds no key that key_value_pairs does not.
C17_MapsAgree ==
    /\ DOMAIN key_value_pairs = DOMAIN creation_times
    /\ DOMAIN expiry \subseteq DOMAIN key_value_pairs

\* C18: the sweeper never raises a fault: every key of expiry, so every key
\* a tick can select, is in key_value_pairs and creation_times, and the
\* thread is never dead.
C18_SweeperNeverFaults ==
    /\ sweeper_pc # "dead"
    /\ DOMAIN expiry \subseteq DOMAIN key_value_pairs
    /\ DOMAIN expiry \subseteq DOMAIN creation_times

\* a tick has just ended that removed a key from all three dictionaries,
\* and the thread sleeps until its next tick
C18_Witness ==
    /\ sweeper_pc = "sleep"
    /\ wake_at = now + SLEEP_SECONDS * Res
    /\ \E k \in Keys :
           /\ removed[k] = "sweep"
           /\ k \notin DOMAIN key_value_pairs
           /\ k \notin DOMAIN expiry
           /\ k \notin DOMAIN creation_times

\* C19: once delete(k) or a sweeper tick has removed k, a set(k, v) yields a
\* key with no deadline; no sweeper tick removes a key with no deadline, and
\* only expire(k, _) gives such a key a deadline.
C19_NoStaleDeadline ==
    /\ [][\A k \in Keys, v \in Values :
             (/\ last'.op = "set"
              /\ removed[k] # "never"
              /\ k \notin DOMAIN key_value_pairs
              /\ Set(k, v)) =>
                 /\ k \in DOMAIN key_value_pairs'
                 /\ ExpiryRead(k)' = INF]_vars
    /\ [][(sweeper_pc = "sweep" /\ SweeperSweep) =>
             \A k \in DOMAIN key_value_pairs :
                 ExpiryRead(k) = INF => k \in DOMAIN key_value_pairs']_vars
    /\ [][\A k \in DOMAIN key_value_pairs :
             (/\ ExpiryRead(k) = INF
              /\ ~(last'.op = "expire" /\ last'.key = k /\ calls' # calls)) =>
                 ExpiryRead(k)' = INF]_vars

\* a key that a tick had removed was set again, and a later tick has ended
\* and left it in place
C19_Witness ==
    /\ last.op = "set"
    /\ removed[last.key] = "sweep"
    /\ last.key \in DOMAIN key_value_pairs
    /\ last.key \notin DOMAIN expiry
    /\ sweeper_pc = "sleep"
    /\ creation_times[last.key] < wake_at - SLEEP_SECONDS * Res

\* C20: get, ttl and get_all_keys leave key_value_pairs, expiry and
\* creation_times unchanged, for every key.
C20_ReadsChangeNothing ==
    [][(last'.op \in {"get", "ttl", "get_all_keys"} /\ calls' # calls) =>
          MapsUnchanged]_vars

\* C11: at most one thread is inside a `with self.lock` block at any time,
\* and the lock is held only while a thread is inside one: every exit from
\* a block, with or without work done and with or without a fault, leaves
\* the lock free.
C11_LockExclusiveAndReleased ==
    /\ Cardinality(inside) <= 1
    /\ locked <=> inside # {}

\* the cleanup thread holds the lock after a delete that raised KeyError
\* has left its block
C11_Witness ==
    /\ last.op = "delete"
    /\ last.fault = "KeyError"
    /\ locked
    /\ inside = {"sweeper"}
====
